---- MODULE Spec2Model ----
(***************************************************************************)
(* A model of the mongo-collections controller: the resource model and its *)
(* relaxed index equality (src/src/resource.rs), the translation between   *)
(* the resource model and the driver's types, the index differ and the     *)
(* reconciler (src/src/main.rs).                                           *)
(*                                                                         *)
(* Conventions.  Rust's Option<T> is a sequence of length 0 or 1.  A       *)
(* BTreeMap<String, T> is a set of <<key, value>> pairs with distinct keys.*)
(* A bson Document is a sequence of entries [k, v] with distinct keys, in  *)
(* insertion order.  A Bson value and a serde_json Value are records       *)
(* [t, i, s]: the type tag, the integer payload, the string payload.       *)
(* An f64 is modelled by an integer (only 180.0 and -180.0 matter).        *)
(***************************************************************************)
EXTENDS Integers, Sequences, FiniteSets, TLC

\* ------------------------------------------------------------- Option<T>
None == <<>>

Some(v) == <<v>>

is_none(o) == Len(o) = 0

is_some(o) == Len(o) = 1

unwrap(o) == o[1]

\* ------------------------------------------------------ generic helpers
\* Iterator::flatten over a sequence of Options (filter_map, flat_map)
RECURSIVE Flatten(_)
Flatten(s) == IF s = <<>> THEN <<>> ELSE Head(s) \o Flatten(Tail(s))

\* The order of String, as BTreeMap iterates its keys: the field names the
\* model uses, in byte order ('_' sorts before the lower-case letters).
FieldOrder == <<"_fts", "_ftsx", "a", "b", "body", "email", "t", "title">>

MapKeys(m) == {e[1] : e \in m}

MapGet(m, k) == (CHOOSE e \in m : e[1] = k)[2]

\* BTreeMap::insert
MapInsert(m, k, v) == {e \in m : e[1] # k} \cup {<<k, v>>}

\* The keys of a BTreeMap in iteration order
InMap(m, f) == f \in MapKeys(m)

SortedKeys(m) == SelectSeq(FieldOrder, LAMBDA f : InMap(m, f))

\* ------------------------------------------------------------ Bson, JSON
BInt32(n) == [t |-> "Int32", i |-> n, s |-> ""]

BInt64(n) == [t |-> "Int64", i |-> n, s |-> ""]

BString(x) == [t |-> "String", i |-> 0, s |-> x]

BBool(b) == [t |-> "Boolean", i |-> IF b THEN 1 ELSE 0, s |-> ""]

BNull == [t |-> "Null", i |-> 0, s |-> ""]

JNumber(n) == [t |-> "Number", i |-> n, s |-> ""]

JString(x) == [t |-> "String", i |-> 0, s |-> x]

JBool(b) == [t |-> "Bool", i |-> IF b THEN 1 ELSE 0, s |-> ""]

JNull == [t |-> "Null", i |-> 0, s |-> ""]

I32Max == 2147483647

\* i32::cast_unsigned, and i64::cast_unsigned() as u32: the value itself
\* for the non-negative 31-bit integers, the only ones the model draws
\* (TLC's integers are 32 bits wide, so 2^32 cannot be written)
cast_unsigned(n) == IF 0 <= n /\ n <= I32Max THEN n ELSE 0

\* Bson::from(u32), as map_to_document uses it for a weight
bson_from_u32(n) == IF n <= I32Max THEN BInt32(n) ELSE BInt64(n)

\* Document::insert: replaces the value of a key already present
DocInsert(d, k, v) ==
    IF \E i \in 1..Len(d) : d[i].k = k
    THEN [i \in 1..Len(d) |-> IF d[i].k = k THEN [k |-> k, v |-> v] ELSE d[i]]
    ELSE Append(d, [k |-> k, v |-> v])

DocKeys(d) == {d[i].k : i \in 1..Len(d)}

\* --------------------------------------------------------- Key <-> Bson
Key(field, dir, type) == [direction |-> dir, field |-> field, index_type |-> type]

Asc(field) == Key(field, Some("Ascending"), None)

Desc(field) == Key(field, Some("Descending"), None)

Typed(field, type) == Key(field, None, Some(type))

direction(v) ==
    CASE v = -1 -> Some("Descending")
      [] v = 1 -> Some("Ascending")
      [] OTHER -> None

index_type(v) ==
    CASE v = "hashed" -> Some("Hashed")
      [] v = "text" -> Some("Text")
      [] v = "2d" -> Some("TwoDimensional")
      [] v = "2dsphere" -> Some("TwoDimensionalSphere")
      [] OTHER -> None

bson_entry_to_key(entry) ==
    CASE entry.v.t = "Int32" -> Some(Key(entry.k, direction(entry.v.i), None))
      [] entry.v.t = "String" -> Some(Key(entry.k, None, index_type(entry.v.s)))
      [] OTHER -> None

key_to_bson(key) ==
    CASE key.direction = Some("Ascending") -> BInt32(1)
      [] key.direction = Some("Descending") -> BInt32(-1)
      [] OTHER ->
           CASE key.index_type = Some("Hashed") -> BString("hashed")
             [] key.index_type = Some("Text") -> BString("text")
             [] key.index_type = Some("TwoDimensional") -> BString("2d")
             [] key.index_type = Some("TwoDimensionalSphere") -> BString("2dsphere")
             [] OTHER -> BNull

RECURSIVE keys_to_document_from(_, _)
keys_to_document_from(document, keys) ==
    IF keys = <<>> THEN document
    ELSE keys_to_document_from(
             DocInsert(document, Head(keys).field, key_to_bson(Head(keys))),
             Tail(keys))

keys_to_document(keys) == keys_to_document_from(<<>>, keys)

is_text_index(key) == key.index_type = Some("Text")

any_text_index(s) == \E i \in 1..Len(s) : is_text_index(s[i])

text_index_keys(options) ==
    IF is_none(options.weights) THEN None
    ELSE LET w == SortedKeys(unwrap(options.weights))
         IN  Some([i \in 1..Len(w) |-> Key(w[i], None, Some("Text"))])

document_to_keys(keys, options) ==
    LET original == Flatten([i \in 1..Len(keys) |-> bson_entry_to_key(keys[i])])
        recovered == IF is_some(options) /\ any_text_index(original)
                     THEN text_index_keys(unwrap(options))
                     ELSE None
    IN  IF is_some(recovered) THEN unwrap(recovered) ELSE original

\* ------------------------------------------------- Options, Collation
\* resource::Options with every field unset
NoOptions ==
    [bits |-> None, collation |-> None, default_language |-> None,
     expire_after_seconds |-> None, hidden |-> None, language_override |-> None,
     max |-> None, min |-> None, name |-> None,
     partial_filter_expression |-> None, sparse |-> None,
     sphere_index_version |-> None, text_index_version |-> None,
     unique |-> None, weights |-> None, wildcard_projection |-> None]

Index(keys, options) == [keys |-> keys, options |-> options]

default_alternate == "NonIgnorable"

default_backwards == FALSE

default_case_first == "Off"

default_case_level == FALSE

default_max_variable == "Punct"

default_normalization == FALSE

default_numeric_ordering == FALSE

default_strength == "Tertiary"

\* resource::Collation of a locale, every other field at its serde default
DefaultCollation(locale) ==
    [alternate |-> default_alternate, backwards |-> default_backwards,
     case_first |-> default_case_first, case_level |-> default_case_level,
     locale |-> locale, max_variable |-> default_max_variable,
     normalization |-> default_normalization,
     numeric_ordering |-> default_numeric_ordering,
     strength |-> default_strength]

\* The driver's enums are written as the values they have on the wire.
collation_alternate_to_model(a) ==
    CASE a = "NonIgnorable" -> "non-ignorable"
      [] a = "Shifted" -> "shifted"

collation_case_first_to_model(c) ==
    CASE c = "Lower" -> "lower"
      [] c = "Off" -> "off"
      [] c = "Upper" -> "upper"

collation_max_variable_to_model(c) ==
    CASE c = "Punct" -> "punct"
      [] c = "Space" -> "space"

collation_strength_to_model(c) ==
    CASE c = "Identical" -> 5
      [] c = "Primary" -> 1
      [] c = "Quaternary" -> 4
      [] c = "Secondary" -> 2
      [] c = "Tertiary" -> 3

collation_to_model(c) ==
    [alternate |-> Some(collation_alternate_to_model(c.alternate)),
     backwards |-> Some(c.backwards),
     case_first |-> Some(collation_case_first_to_model(c.case_first)),
     case_level |-> Some(c.case_level),
     locale |-> c.locale,
     max_variable |-> Some(collation_max_variable_to_model(c.max_variable)),
     normalization |-> Some(c.normalization),
     numeric_ordering |-> Some(c.numeric_ordering),
     strength |-> Some(collation_strength_to_model(c.strength))]

model_to_collation_alternate(a) ==
    CASE a = Some("shifted") -> "Shifted"
      [] a = Some("non-ignorable") -> "NonIgnorable"
      [] OTHER -> default_alternate

model_to_collation_case_first(c) ==
    CASE c = Some("lower") -> "Lower"
      [] c = Some("off") -> "Off"
      [] c = Some("upper") -> "Upper"
      [] OTHER -> default_case_first

model_to_collation_max_variable(m) ==
    CASE m = Some("punct") -> "Punct"
      [] m = Some("space") -> "Space"
      [] OTHER -> default_max_variable

model_to_collation_strength(s) ==
    CASE s = Some(5) -> "Identical"
      [] s = Some(1) -> "Primary"
      [] s = Some(4) -> "Quaternary"
      [] s = Some(2) -> "Secondary"
      [] s = Some(3) -> "Tertiary"
      [] OTHER -> default_strength

\* case_level, normalization and numeric_ordering are read from
\* collation.backwards, as the source does.
model_to_collation(collation) ==
    [alternate |-> model_to_collation_alternate(collation.alternate),
     backwards |-> IF is_some(collation.backwards)
                   THEN unwrap(collation.backwards) ELSE default_backwards,
     case_first |-> model_to_collation_case_first(collation.case_first),
     case_level |-> IF is_some(collation.backwards)
                    THEN unwrap(collation.backwards) ELSE default_case_level,
     locale |-> collation.locale,
     max_variable |-> model_to_collation_max_variable(collation.max_variable),
     normalization |-> IF is_some(collation.backwards)
                       THEN unwrap(collation.backwards) ELSE default_normalization,
     numeric_ordering |-> IF is_some(collation.backwards)
                          THEN unwrap(collation.backwards)
                          ELSE default_numeric_ordering,
     strength |-> model_to_collation_strength(collation.strength)]

\* ---------------------------------------------- documents <-> BTreeMaps
\* The three uses of map_to_document and document_to_map differ in their
\* mapper and predicate; `kind` names the use: "value" for
\* partial_filter_expression, "weight" for weights, "wildcard" for
\* wildcard_projection.
value_to_bson(v) ==
    CASE v.t = "Null" -> BNull
      [] v.t = "Bool" -> [t |-> "Boolean", i |-> v.i, s |-> ""]
      [] v.t = "Number" -> IF -I32Max - 1 <= v.i /\ v.i <= I32Max
                           THEN BInt32(v.i) ELSE BInt64(v.i)
      [] v.t = "String" -> BString(v.s)
      [] OTHER -> BNull

bson_to_value(bson) ==
    CASE bson.t = "Boolean" -> [t |-> "Bool", i |-> bson.i, s |-> ""]
      [] bson.t = "Int32" -> JNumber(bson.i)
      [] bson.t = "Int64" -> JNumber(bson.i)
      [] bson.t = "Null" -> JNull
      [] bson.t = "String" -> JString(bson.s)
      [] OTHER -> JNull

bson_to_weight(bson) ==
    CASE bson.t = "Int32" -> cast_unsigned(bson.i)
      [] bson.t = "Int64" -> cast_unsigned(bson.i)
      [] OTHER -> 0

value_to_wildcard_projection(v) == IF v = 1 THEN "Include" ELSE "Exclude"

bson_to_wildcard_projection(bson) ==
    CASE bson.t = "Int32" -> value_to_wildcard_projection(cast_unsigned(bson.i))
      [] bson.t = "Int64" -> value_to_wildcard_projection(cast_unsigned(bson.i))
      [] OTHER -> "Exclude"

wildcard_projection_to_bson(w) ==
    CASE w = "Exclude" -> BInt32(0)
      [] w = "Include" -> BInt32(1)

all_entries(entry) == TRUE

is_weight(entry) == entry.v.t \in {"Int32", "Int64"}

is_wildcard_projection(entry) ==
    entry.v.t \in {"Int32", "Int64"} /\ entry.v.i \in {0, 1}

MapperToBson(kind, v) ==
    CASE kind = "value" -> value_to_bson(v)
      [] kind = "weight" -> bson_from_u32(v)
      [] kind = "wildcard" -> wildcard_projection_to_bson(v)

MapperFromBson(kind, bson) ==
    CASE kind = "value" -> bson_to_value(bson)
      [] kind = "weight" -> bson_to_weight(bson)
      [] kind = "wildcard" -> bson_to_wildcard_projection(bson)

PredicateFromBson(kind, entry) ==
    CASE kind = "value" -> all_entries(entry)
      [] kind = "weight" -> is_weight(entry)
      [] kind = "wildcard" -> is_wildcard_projection(entry)

RECURSIVE map_to_document_from(_, _, _, _)
map_to_document_from(d, map, ks, kind) ==
    IF ks = <<>> THEN d
    ELSE map_to_document_from(
             DocInsert(d, Head(ks), MapperToBson(kind, MapGet(map, Head(ks)))),
             map, Tail(ks), kind)

\* every use passes all_entries as the predicate
map_to_document(map, kind) == map_to_document_from(<<>>, map, SortedKeys(map), kind)

RECURSIVE document_to_map_from(_, _, _)
document_to_map_from(m, document, kind) ==
    IF document = <<>> THEN m
    ELSE document_to_map_from(
             IF PredicateFromBson(kind, Head(document))
             THEN MapInsert(m, Head(document).k, MapperFromBson(kind, Head(document).v))
             ELSE m,
             Tail(document), kind)

document_to_map(document, kind) == document_to_map_from({}, document, kind)

\* ------------------------------------------ Options <-> IndexOptions
number_to_sphere_index_version(version) ==
    CASE version = 2 -> [t |-> "V2", v |-> 0]
      [] version = 3 -> [t |-> "V3", v |-> 0]
      [] OTHER -> [t |-> "Custom", v |-> version]

number_to_text_index_version(version) ==
    CASE version = 1 -> [t |-> "V1", v |-> 0]
      [] version = 2 -> [t |-> "V2", v |-> 0]
      [] version = 3 -> [t |-> "V3", v |-> 0]
      [] OTHER -> [t |-> "Custom", v |-> version]

sphere_index_version_to_number(version) ==
    CASE version.t = "V2" -> 2
      [] version.t = "V3" -> 3
      [] version.t = "Custom" -> version.v

text_index_version_to_number(version) ==
    CASE version.t = "V1" -> 1
      [] version.t = "V2" -> 2
      [] version.t = "V3" -> 3
      [] version.t = "Custom" -> version.v

\* Duration::from_secs and Duration::as_secs
from_secs(n) == [secs |-> n, nanos |-> 0]

as_secs(d) == d.secs

options_to_model(options) ==
    [bits |-> options.bits,
     collation |-> IF is_some(options.collation)
                   THEN Some(collation_to_model(unwrap(options.collation)))
                   ELSE None,
     default_language |-> options.default_language,
     expire_after |-> IF is_some(options.expire_after_seconds)
                      THEN Some(from_secs(unwrap(options.expire_after_seconds)))
                      ELSE None,
     hidden |-> options.hidden,
     language_override |-> options.language_override,
     max |-> options.max,
     min |-> options.min,
     name |-> options.name,
     partial_filter_expression |->
         IF is_some(options.partial_filter_expression)
         THEN Some(map_to_document(unwrap(options.partial_filter_expression), "value"))
         ELSE None,
     sparse |-> options.sparse,
     sphere_2d_index_version |->
         IF is_some(options.sphere_index_version)
         THEN Some(number_to_sphere_index_version(unwrap(options.sphere_index_version)))
         ELSE None,
     text_index_version |->
         IF is_some(options.text_index_version)
         THEN Some(number_to_text_index_version(unwrap(options.text_index_version)))
         ELSE None,
     unique |-> options.unique,
     weights |-> IF is_some(options.weights)
                 THEN Some(map_to_document(unwrap(options.weights), "weight"))
                 ELSE None,
     wildcard_projection |->
         IF is_some(options.wildcard_projection)
         THEN Some(map_to_document(unwrap(options.wildcard_projection), "wildcard"))
         ELSE None]

model_to_options(options) ==
    [bits |-> options.bits,
     collation |-> IF is_some(options.collation)
                   THEN Some(model_to_collation(unwrap(options.collation)))
                   ELSE None,
     default_language |-> options.default_language,
     expire_after_seconds |-> IF is_some(options.expire_after)
                              THEN Some(as_secs(unwrap(options.expire_after)))
                              ELSE None,
     hidden |-> options.hidden,
     language_override |-> options.language_override,
     max |-> options.max,
     min |-> options.min,
     name |-> options.name,
     partial_filter_expression |->
         IF is_some(options.partial_filter_expression)
         THEN Some(document_to_map(unwrap(options.partial_filter_expression), "value"))
         ELSE None,
     sparse |-> options.sparse,
     sphere_index_version |->
         IF is_some(options.sphere_2d_index_version)
         THEN Some(sphere_index_version_to_number(unwrap(options.sphere_2d_index_version)))
         ELSE None,
     text_index_version |->
         IF is_some(options.text_index_version)
         THEN Some(text_index_version_to_number(unwrap(options.text_index_version)))
         ELSE None,
     unique |-> options.unique,
     weights |-> IF is_some(options.weights)
                 THEN Some(document_to_map(unwrap(options.weights), "weight"))
                 ELSE None,
     wildcard_projection |->
         IF is_some(options.wildcard_projection)
         THEN Some(document_to_map(unwrap(options.wildcard_projection), "wildcard"))
         ELSE None]

\* ------------------------------------------------ Index <-> IndexModel
index_to_model(index) ==
    [keys |-> keys_to_document(index.keys),
     options |-> IF is_some(index.options)
                 THEN Some(options_to_model(unwrap(index.options)))
                 ELSE None]

index_model_to_index(index_model) ==
    LET options == IF is_some(index_model.options)
                   THEN Some(model_to_options(unwrap(index_model.options)))
                   ELSE None
    IN  [keys |-> document_to_keys(index_model.keys, options), options |-> options]

CLUSTERED_NAME == "_id_"

\* Option<Options>::and_then(|o| o.name)
OptionsName(options) == IF is_some(options) THEN unwrap(options).name ELSE None

\* is_not_clustered without the comparison with CLUSTERED_NAME
is_not_clustered_any(index) == TRUE

is_not_clustered(index) ==
    LET n == OptionsName(index.options)
    IN  is_none(n) \/ unwrap(n) # CLUSTERED_NAME

index_models_to_indexes(index_models) ==
    SelectSeq([i \in 1..Len(index_models) |-> index_model_to_index(index_models[i])],
              is_not_clustered)

index_name(index) ==
    LET n == OptionsName(index.options)
    IN  IF is_some(n) THEN unwrap(n) ELSE ""

\* invalid_key with || for &&
invalid_key_either(key) == is_some(key.direction) \/ is_some(key.index_type)

invalid_key(key) == is_some(key.direction) /\ is_some(key.index_type)

\* Every key of every index, in order
RECURSIVE AllKeys(_)
AllKeys(indexes) ==
    IF indexes = <<>> THEN <<>> ELSE Head(indexes).keys \o AllKeys(Tail(indexes))

\* indexes is Option<&[Index]>
invalid_keys(indexes) ==
    LET keys == IF is_some(indexes) THEN AllKeys(unwrap(indexes)) ELSE <<>>
        bad == SelectSeq(keys, invalid_key)
    IN  [i \in 1..Len(bad) |-> bad[i].field]

\* -------------------------------------------------- equality (resource)
\* is_default_comparison, with its closure applied: none_i is v_i.is_none(),
\* def_i is v_i.is_some_and(is_default)
is_default_comparison(none1, none2, def1, def2) ==
    \/ (none1 /\ def2)
    \/ (none2 /\ def1)
    \/ (def1 /\ def2)

\* is_default_language that takes any two languages for the default
is_default_language_any(v1, v2) == TRUE

is_default_language(v1, v2) ==
    is_default_comparison(is_none(v1), is_none(v2),
                          is_some(v1) /\ unwrap(v1) = "english",
                          is_some(v2) /\ unwrap(v2) = "english")

is_default_language_override(v1, v2) ==
    is_default_comparison(is_none(v1), is_none(v2),
                          is_some(v1) /\ unwrap(v1) = "language",
                          is_some(v2) /\ unwrap(v2) = "language")

\* Options::is_default that takes only unset fields for defaults
is_default_unset_only(self) == self = [NoOptions EXCEPT !.name = self.name]

\* Options::is_default
is_default(self) ==
    /\ (is_none(self.bits) \/ unwrap(self.bits) = 26)
    /\ is_none(self.collation)
    /\ (is_none(self.default_language) \/ unwrap(self.default_language) = "english")
    /\ is_none(self.expire_after_seconds)
    /\ (is_none(self.hidden) \/ ~unwrap(self.hidden))
    /\ (is_none(self.language_override) \/ unwrap(self.language_override) = "language")
    /\ (is_none(self.max) \/ unwrap(self.max) = 180)
    /\ (is_none(self.min) \/ unwrap(self.min) = -180)
    /\ is_none(self.partial_filter_expression)
    /\ (is_none(self.sparse) \/ ~unwrap(self.sparse))
    /\ is_none(self.sphere_index_version)
    /\ is_none(self.text_index_version)
    /\ (is_none(self.unique) \/ ~unwrap(self.unique))
    /\ is_none(self.weights)
    /\ is_none(self.wildcard_projection)

is_default_option(v1, v2) ==
    is_default_comparison(is_none(v1), is_none(v2),
                          is_some(v1) /\ is_default(unwrap(v1)),
                          is_some(v2) /\ is_default(unwrap(v2)))

\* impl PartialEq for Options
options_eq(self, other) ==
    /\ self.bits = other.bits
    /\ self.collation = other.collation
    /\ (\/ self.default_language = other.default_language
        \/ is_default_language(self.default_language, other.default_language))
    /\ self.expire_after_seconds = other.expire_after_seconds
    /\ self.hidden = other.hidden
    /\ (\/ self.language_override = other.language_override
        \/ is_default_language_override(self.language_override, other.language_override))
    /\ self.max = other.max
    /\ self.min = other.min
    /\ self.partial_filter_expression = other.partial_filter_expression
    /\ (\/ self.sphere_index_version = other.sphere_index_version
        \/ is_none(self.sphere_index_version)
        \/ is_none(other.sphere_index_version))
    /\ (\/ self.text_index_version = other.text_index_version
        \/ is_none(self.text_index_version)
        \/ is_none(other.text_index_version))
    /\ self.unique = other.unique
    /\ (\/ self.weights = other.weights
        \/ is_none(self.weights)
        \/ is_none(other.weights))
    /\ self.wildcard_projection = other.wildcard_projection

\* Option<Options> == Option<Options>, through Options' PartialEq
option_options_eq(a, b) ==
    \/ (is_none(a) /\ is_none(b))
    \/ (is_some(a) /\ is_some(b) /\ options_eq(unwrap(a), unwrap(b)))

\* slice::contains for keys: Key derives PartialEq
contains_key(v, k) == \E i \in 1..Len(v) : v[i] = k

same_keys(v1, v2) ==
    Len(v1) = Len(v2) /\ \A i \in 1..Len(v1) : contains_key(v2, v1[i])

\* impl PartialEq for Index
index_eq(self, other) ==
    /\ same_keys(self.keys, other.keys)
    /\ (\/ option_options_eq(self.options, other.options)
        \/ is_default_option(self.options, other.options))

\* slice::contains for indexes: some element e with e == x
contains_index(s, x) == \E i \in 1..Len(s) : index_eq(s[i], x)

\* ------------------------------------------------------ the differ
\* drop_not_specified that takes every found index for unspecified
drop_names_all(specified, found) ==
    Flatten([j \in 1..Len(found) |-> OptionsName(found[j].options)])

\* drop_not_specified's `names`: the names of the found indexes that no
\* specified index equals; a found index without options or name yields none
drop_names(specified, found) ==
    LET unspecified == SelectSeq(found, LAMBDA i : ~contains_index(specified, i))
    IN  Flatten([j \in 1..Len(unspecified) |-> OptionsName(unspecified[j].options)])

\* create_new_indexes' `indexes`: the specified indexes that no found index equals
new_indexes(specified, found) ==
    SelectSeq(specified, LAMBDA i : ~contains_index(found, i))

DropStep(n) == [op |-> "drop_index", name |-> n, index |-> None]

CreateStep(i) == [op |-> "create_index", name |-> index_name(i), index |-> Some(i)]

\* reconcile_indexes with create_new_indexes called before drop_not_specified
reconcile_indexes_plan_creates_first(indexes, found) ==
    IF is_some(indexes)
    THEN LET drops == drop_names(unwrap(indexes), found)
             creates == new_indexes(unwrap(indexes), found)
         IN  [j \in 1..Len(creates) |-> CreateStep(creates[j])]
             \o [j \in 1..Len(drops) |-> DropStep(drops[j])]
    ELSE <<>>

\* reconcile_indexes that takes an absent list for an empty one
reconcile_indexes_plan_absent_as_empty(indexes, found) ==
    LET specified == IF is_some(indexes) THEN unwrap(indexes) ELSE <<>>
        drops == drop_names(specified, found)
        creates == new_indexes(specified, found)
    IN  [j \in 1..Len(drops) |-> DropStep(drops[j])]
        \o [j \in 1..Len(creates) |-> CreateStep(creates[j])]

\* reconcile_indexes: the database calls it makes after the listing, in
\* order; indexes is Option<&Vec<Index>>
reconcile_indexes_plan(indexes, found) ==
    IF is_some(indexes)
    THEN LET drops == drop_names(unwrap(indexes), found)
             creates == new_indexes(unwrap(indexes), found)
         IN  [j \in 1..Len(drops) |-> DropStep(drops[j])]
             \o [j \in 1..Len(creates) |-> CreateStep(creates[j])]
    ELSE <<>>

\* --------------------------------------------------------- the errors
OperatorError(kind, detail) == [kind |-> kind, detail |-> detail]

\* invalid.join(", ") is kept as the sequence of the joined fields
InvalidKeys(fields) == OperatorError("InvalidKeys", fields)

MongoDB(what) == OperatorError("MongoDB", <<what>>)

KubeError == OperatorError("Kube", <<>>)

\* A failed status patch reported as a Kubernetes error
StatusPatchAsKube(what) == OperatorError("Kube", <<>>)

StatusPatch(what) == OperatorError("StatusPatch", <<what>>)

\* Display for OperatorError (#[error(...)]), as the sequence of its parts
to_string(e) ==
    CASE e.kind = "InvalidKeys" ->
             <<"the keys">> \o e.detail
                 \o <<"have both the fields direction and indexType set">>
      [] e.kind = "MongoDB" -> <<"MongoDB error:">> \o e.detail
      [] e.kind = "Kube" -> <<"kube API error">>
      [] e.kind = "StatusPatch" ->
             <<"the status of">> \o e.detail \o <<"could not be updated">>

BACK_OFF == 5

INTERVAL == 60

\* Action::requeue(INTERVAL), the success of reconcile_action
Requeue(after) == [ok |-> TRUE, after |-> after, err |-> None]

\* error_policy that requeues after INTERVAL
FailedAfterInterval(e) == [ok |-> FALSE, after |-> INTERVAL, err |-> Some(e)]

\* Err(e), with the delay error_policy gives the runtime
Failed(e) == [ok |-> FALSE, after |-> 5, err |-> Some(e)]

\* An event of type Normal
event_normal(error) ==
    [type_ |-> "Normal", reason |-> "Error", note |-> Some(to_string(error)),
     action |-> "update", secondary |-> None]

\* event: the Event that reconcile publishes for an error
event(error) ==
    [type_ |-> "Warning", reason |-> "Error", note |-> Some(to_string(error)),
     action |-> "update", secondary |-> None]

\* --------------------------------------- the status (kube_operator_util)
\* Status of the external status library: is_ready() and the message
set_ready(prev) == [ready |-> TRUE, message |-> <<>>]

set_error(prev, message) == [ready |-> FALSE, message |-> message]

\* is_not_ready that holds for every status
is_not_ready_any_status(obj) == is_some(obj.status)

is_not_ready(obj) == is_some(obj.status) /\ ~unwrap(obj.status).ready

\* needs_ready_patch without the status conditions
needs_ready_patch_changed_only(changed, obj) == changed

\* needs_ready_patch that holds for every reconcile
needs_ready_patch_always(changed, obj) == TRUE

\* The condition of the Ready patch in reconcile_action
needs_ready_patch(changed, obj) ==
    changed \/ is_none(obj.status) \/ is_not_ready(obj)

\* collection_name that ignores spec.name
collection_name_metadata(obj) ==
    IF is_some(obj.metadata_name) THEN unwrap(obj.metadata_name) ELSE ""

collection_name(obj) ==
    IF is_some(obj.spec.name) THEN unwrap(obj.spec.name)
    ELSE IF is_some(obj.metadata_name) THEN unwrap(obj.metadata_name) ELSE ""

\* exists that does not compare the names with the collection
exists_any(names, collection) == \E n \in names : TRUE

\* exists that finds no collection
exists_none(names, collection) == FALSE

\* exists(): whether the listed names hold the collection
exists(names, collection) == \E n \in names : n = collection

\* ------------------------------------------------ the database server
\* The server is outside the repository.  It is modelled as the
\* specification describes it: it names an index that has no name, and for
\* an index with text keys it reports the synthetic _fts/_ftsx keys and the
\* weights of the text fields.
NoIndexOptions ==
    [bits |-> None, collation |-> None, default_language |-> None,
     expire_after |-> None, hidden |-> None, language_override |-> None,
     max |-> None, min |-> None, name |-> None,
     partial_filter_expression |-> None, sparse |-> None,
     sphere_2d_index_version |-> None, text_index_version |-> None,
     unique |-> None, weights |-> None, wildcard_projection |-> None]

IdIndexModel ==
    [keys |-> <<[k |-> "_id", v |-> BInt32(1)]>>,
     options |-> Some([NoIndexOptions EXCEPT !.name = Some(CLUSTERED_NAME)])]

RECURSIVE GeneratedName(_)
GeneratedName(keys) ==
    IF keys = <<>> THEN ""
    ELSE LET e == Head(keys)
             part == e.k \o "_" \o (IF e.v.t = "String" THEN e.v.s ELSE ToString(e.v.i))
         IN  IF Len(keys) = 1 THEN part ELSE part \o "_" \o GeneratedName(Tail(keys))

IsTextEntry(e) == e.v = BString("text")

\* The key document of a text index as the server lists it
RECURSIVE ServerTextKeys(_, _)
ServerTextKeys(keys, seen) ==
    IF keys = <<>> THEN <<>>
    ELSE IF IsTextEntry(Head(keys))
         THEN (IF seen THEN <<>>
               ELSE <<[k |-> "_fts", v |-> BString("text")],
                      [k |-> "_ftsx", v |-> BInt32(1)]>>)
              \o ServerTextKeys(Tail(keys), TRUE)
         ELSE <<Head(keys)>> \o ServerTextKeys(Tail(keys), seen)

\* The weights the server lists: the given ones, and 1 for each text field
\* that has none
RECURSIVE ServerWeights(_, _)
ServerWeights(weights, keys) ==
    IF keys = <<>> THEN weights
    ELSE ServerWeights(
             IF IsTextEntry(Head(keys)) /\ Head(keys).k \notin DocKeys(weights)
             THEN Append(weights, [k |-> Head(keys).k, v |-> BInt32(1)])
             ELSE weights,
             Tail(keys))

\* What list_indexes reports for an index created from `model`
ServerStored(model) ==
    LET given == IF is_some(model.options) THEN unwrap(model.options) ELSE NoIndexOptions
        named == [given EXCEPT !.name = IF is_some(given.name) THEN given.name
                                        ELSE Some(GeneratedName(model.keys))]
        text == \E i \in 1..Len(model.keys) : IsTextEntry(model.keys[i])
    IN  IF text
        THEN [keys |-> ServerTextKeys(model.keys, FALSE),
              options |-> Some([named EXCEPT
                  !.weights = Some(ServerWeights(
                      IF is_some(given.weights) THEN unwrap(given.weights) ELSE <<>>,
                      model.keys))])]
        ELSE [keys |-> model.keys, options |-> Some(named)]

ModelName(m) == unwrap(unwrap(m.options).name)

\* createIndexes: an index that is there already is left alone; another
\* index of the same name or the same keys is a conflict
ServerConflict(list, model) ==
    LET stored == ServerStored(model)
    IN  \E i \in 1..Len(list) :
            /\ list[i] # stored
            /\ (ModelName(list[i]) = ModelName(stored) \/ list[i].keys = stored.keys)

ServerCreateIndex(list, model) ==
    LET stored == ServerStored(model)
    IN  IF \E i \in 1..Len(list) : list[i] = stored THEN list ELSE Append(list, stored)

ServerHasIndex(list, n) == \E i \in 1..Len(list) : ModelName(list[i]) = n

ServerDropIndex(list, n) == SelectSeq(list, LAMBDA m : ModelName(m) # n)

\* ------------------------------------------------------------ bounds
\* The number of times the user creates, changes or deletes the resource
MaxUpdates == 2

\* ----------------------------------------------------- the state
VARIABLES
    cr,           \* the MongoCollection on the API server: None, or Some of
                  \* its [spec, status]
    collections,  \* the names of the database's collections
    indexes,      \* per collection name, the IndexModels list_indexes reports
    pc,           \* where the controller's one reconcile stands
    obj,          \* the resource the running reconcile was called with
    found,        \* reconcile_indexes' `found`
    plan,         \* the index drops and creates reconcile_indexes still makes
    has_any,      \* reconcile_indexes' `has_any`
    err,          \* the error reconcile_action returned, if any
    ops,          \* the calls the running (or last) reconcile has issued
    result,       \* what the last reconcile returned to the runtime
    prev,         \* the reconcile before that: its spec and whether it succeeded
    updates,      \* the number of user changes so far
    pure,         \* the input and output of a translation or a comparison
    fleet         \* the controllers main runs, their resources and reconciles

vars == <<cr, collections, indexes, pc, obj, found, plan, has_any, err, ops,
          result, prev, updates, pure, fleet>>

db == <<collections, indexes>>

run == <<pc, obj, found, plan, has_any, err, ops, result, prev>>

MetadataName == "users"

CollectionNames == {"users", "orders"}

\* ------------------------------------------ the resources of the model
IdxEmail ==
    Index(<<Asc("email")>>,
          Some([NoOptions EXCEPT !.unique = Some(TRUE), !.name = Some("email_uniq")]))

IdxEmailNotUnique ==
    Index(<<Asc("email")>>,
          Some([NoOptions EXCEPT !.unique = Some(FALSE), !.name = Some("email_uniq")]))

IdxPlain == Index(<<Asc("a"), Desc("b")>>, None)

IdxText == Index(<<Typed("title", "Text"), Typed("body", "Text")>>, None)

IdxCollation ==
    Index(<<Asc("a")>>,
          Some([NoOptions EXCEPT
                   !.collation = Some([DefaultCollation("en") EXCEPT !.case_level = TRUE])]))

IdxInvalid == Index(<<Key("x", Some("Ascending"), Some("Hashed"))>>, None)

IndexesUniverse ==
    {None, Some(<<>>), Some(<<IdxEmail>>), Some(<<IdxEmailNotUnique, IdxPlain>>),
     Some(<<IdxText>>), Some(<<IdxCollation>>), Some(<<IdxPlain, IdxInvalid>>)}

\* spec.name is unset, or names another collection than metadata.name
SpecUniverse ==
    {[name |-> None, indexes |-> i, clustered |-> None] : i \in IndexesUniverse}
    \cup {[name |-> Some("orders"), indexes |-> i, clustered |-> None] :
              i \in {None, Some(<<IdxEmail>>)}}
    \cup {[name |-> None, indexes |-> None, clustered |-> Some(c)] : c \in BOOLEAN}

\* The index lists a collection may hold before the controller first sees it
InitialIndexes ==
    {<<IdIndexModel>>,
     <<IdIndexModel, ServerStored(index_to_model(IdxEmailNotUnique))>>,
     <<IdIndexModel, ServerStored(index_to_model(IdxPlain)),
       ServerStored(index_to_model(IdxText))>>}

NoPure == [op |-> "none", in |-> None, out |-> None]

NoFleet == [scopes |-> {}, crs |-> <<>>, at |-> <<>>]

NoObj == [metadata_name |-> None,
          spec |-> [name |-> None, indexes |-> None, clustered |-> None],
          status |-> None]

RunInit ==
    /\ pc = "idle"
    /\ obj = NoObj
    /\ found = <<>>
    /\ plan = <<>>
    /\ has_any = FALSE
    /\ err = None
    /\ ops = <<>>
    /\ result = None
    /\ prev = None

Init ==
    /\ cr = None
    /\ \E present \in SUBSET {MetadataName} :
           /\ collections = present
           /\ \E l \in InitialIndexes :
                  indexes = [n \in CollectionNames |->
                                IF n \in present THEN l ELSE <<>>]
    /\ RunInit
    /\ updates = 0
    /\ pure = NoPure
    /\ fleet = NoFleet

\* ------------------------------------------------------------ the user
\* kubectl apply: creates the resource, or changes its spec.  A change made
\* during a reconcile does not reach it (it works on `obj`), so the user's
\* changes are taken between the reconciles.
UserApply ==
    /\ updates < MaxUpdates
    /\ pc = "idle"
    /\ \E s \in SpecUniverse :
           /\ is_some(cr) => unwrap(cr).spec # s
           /\ cr' = Some([spec |-> s,
                          status |-> IF is_some(cr) THEN unwrap(cr).status ELSE None])
    /\ updates' = updates + 1
    /\ UNCHANGED <<db, run, pure, fleet>>

\* kubectl delete.  A deletion during a reconcile shows to it only as a
\* status patch that fails, which PatchReady and PatchError cover.
UserDelete ==
    /\ updates < MaxUpdates
    /\ is_some(cr)
    /\ pc = "idle"
    /\ cr' = None
    /\ updates' = updates + 1
    /\ UNCHANGED <<db, run, pure, fleet>>

\* ------------------------------------------------------- the reconcile
Op(op, name, ok) ==
    [op |-> op, name |-> name, ok |-> ok, names |-> {}, clustered_index |-> FALSE,
     index |-> None, event |-> None, secs |-> 0]

\* The step after the index calls: the Ready patch, or Ok(requeue(INTERVAL))
AfterIndexes(changed) ==
    IF needs_ready_patch(changed, obj) THEN "patch_ready" ELSE "done"

\* reconcile is called with the resource as the API server holds it
ReconcileStart ==
    /\ pc = "idle"
    /\ is_some(cr)
    /\ obj' = [metadata_name |-> Some(MetadataName), spec |-> unwrap(cr).spec,
               status |-> unwrap(cr).status]
    /\ pc' = IF is_not_ready(obj') THEN "sleep" ELSE "reconcile_action"
    /\ UNCHANGED <<cr, db, found, plan, has_any, err, ops, result, prev, updates, pure, fleet>>

\* sleep(BACK_OFF)
Sleep ==
    /\ pc = "sleep"
    /\ pc' = "reconcile_action"
    /\ ops' = Append(ops, [Op("sleep", "", TRUE) EXCEPT !.secs = BACK_OFF])
    /\ UNCHANGED <<cr, db, obj, found, plan, has_any, err, result, prev, updates, pure, fleet>>

\* reconcile_action up to its first await: invalid_keys
Validate ==
    /\ pc = "reconcile_action"
    /\ LET invalid == invalid_keys(obj.spec.indexes)
       IN  IF invalid # <<>>
           THEN /\ err' = Some(InvalidKeys(invalid))
                /\ pc' = "patch_error"
           ELSE /\ err' = err
                /\ pc' = "exists"
    /\ UNCHANGED <<cr, db, obj, found, plan, has_any, ops, result, prev, updates, pure, fleet>>

\* exists(&ctx.database, name).await?
Exists ==
    /\ pc = "exists"
    /\ \E ok \in BOOLEAN :
           /\ ops' = Append(ops, [op |-> "list_collection_names", name |-> "",
                                  ok |-> ok, names |-> IF ok THEN collections ELSE {},
                                  clustered_index |-> FALSE, index |-> None,
                                  event |-> None, secs |-> 0])
           /\ IF ok
              THEN /\ pc' = IF exists(collections, collection_name(obj))
                            THEN "list_indexes" ELSE "create_collection"
                   /\ err' = err
              ELSE /\ pc' = "patch_error"
                   /\ err' = Some(MongoDB("list_collection_names"))
    /\ UNCHANGED <<cr, db, obj, found, plan, has_any, result, prev, updates, pure, fleet>>

\* create_collection: the options of the creation request that the model
\* follows; update_if_some applies its update when the option is Some
create_collection(o) == [clustered_index |-> is_some(o.spec.clustered)]

\* create_collection(name, obj, &ctx.database).await?
CreateCollection ==
    /\ pc = "create_collection"
    /\ LET name == collection_name(obj)
       IN  \E ok \in BOOLEAN :
               /\ ops' = Append(ops, [Op("create_collection", name, ok) EXCEPT
                                         !.clustered_index =
                                             create_collection(obj).clustered_index])
               /\ IF ok
                  THEN /\ collections' = collections \cup {name}
                       /\ indexes' = [indexes EXCEPT ![name] = <<IdIndexModel>>]
                       /\ pc' = "list_indexes"
                       /\ err' = err
                  ELSE /\ UNCHANGED db
                       /\ pc' = "patch_error"
                       /\ err' = Some(MongoDB("create_collection"))
    /\ UNCHANGED <<cr, obj, found, plan, has_any, result, prev, updates, pure, fleet>>

\* reconcile_indexes: list_indexes(collection).await?, and the plan of the
\* drops and creates computed from what it found
ListIndexes ==
    /\ pc = "list_indexes"
    /\ \E ok \in BOOLEAN :
           /\ ops' = Append(ops, Op("list_indexes", collection_name(obj), ok))
           /\ IF ok
              THEN /\ found' = index_models_to_indexes(indexes[collection_name(obj)])
                   /\ plan' = reconcile_indexes_plan(obj.spec.indexes, found')
                   /\ pc' = IF plan' # <<>> THEN "indexes" ELSE AfterIndexes(FALSE)
                   /\ result' = IF pc' = "done" THEN Some(Requeue(INTERVAL)) ELSE result
                   /\ err' = err
              ELSE /\ UNCHANGED <<found, plan, result>>
                   /\ pc' = "patch_error"
                   /\ err' = Some(MongoDB("list_indexes"))
    /\ UNCHANGED <<cr, db, obj, has_any, prev, updates, pure, fleet>>

\* drop_not_specified: collection.drop_index(n).await?
DropIndex ==
    /\ pc = "indexes"
    /\ Head(plan).op = "drop_index"
    /\ LET name == collection_name(obj)
           n == Head(plan).name
       IN  \E ok \in {b \in BOOLEAN : b => ServerHasIndex(indexes[name], n)} :
               /\ ops' = Append(ops, Op("drop_index", n, ok))
               /\ has_any' = TRUE
               /\ IF ok
                  THEN /\ indexes' = [indexes EXCEPT ![name] = ServerDropIndex(@, n)]
                       /\ plan' = Tail(plan)
                       /\ pc' = IF plan' # <<>> THEN "indexes" ELSE AfterIndexes(TRUE)
                       /\ result' = IF pc' = "done" THEN Some(Requeue(INTERVAL)) ELSE result
                       /\ err' = err
                  ELSE /\ UNCHANGED <<indexes, plan, result>>
                       /\ pc' = "patch_error"
                       /\ err' = Some(MongoDB("drop_index"))
    /\ UNCHANGED <<cr, collections, obj, found, prev, updates, pure, fleet>>

\* create_new_indexes: create_index(collection, &i).await?
CreateIndex ==
    /\ pc = "indexes"
    /\ Head(plan).op = "create_index"
    /\ LET name == collection_name(obj)
           model == index_to_model(unwrap(Head(plan).index))
       IN  \E ok \in {b \in BOOLEAN : b => ~ServerConflict(indexes[name], model)} :
               /\ ops' = Append(ops, [Op("create_index", Head(plan).name, ok) EXCEPT
                                         !.index = Head(plan).index])
               /\ has_any' = TRUE
               /\ IF ok
                  THEN /\ indexes' = [indexes EXCEPT ![name] = ServerCreateIndex(@, model)]
                       /\ plan' = Tail(plan)
                       /\ pc' = IF plan' # <<>> THEN "indexes" ELSE AfterIndexes(TRUE)
                       /\ result' = IF pc' = "done" THEN Some(Requeue(INTERVAL)) ELSE result
                       /\ err' = err
                  ELSE /\ UNCHANGED <<indexes, plan, result>>
                       /\ pc' = "patch_error"
                       /\ err' = Some(MongoDB("create_index"))
    /\ UNCHANGED <<cr, collections, obj, found, prev, updates, pure, fleet>>

\* patch_status(obj, &ctx.client, None).await? in reconcile_action; the
\* patch of a resource that is gone fails
PatchReady ==
    /\ pc = "patch_ready"
    /\ \E ok \in {b \in BOOLEAN : b => is_some(cr)} :
           /\ ops' = Append(ops, Op("patch_status", "Ready", ok))
           /\ IF ok
              THEN /\ cr' = Some([unwrap(cr) EXCEPT !.status = Some(set_ready(obj.status))])
                   /\ pc' = "done"
                   /\ result' = Some(Requeue(INTERVAL))
                   /\ err' = err
              ELSE /\ cr' = cr
                   /\ pc' = "patch_error"
                   /\ result' = result
                   /\ err' = Some(StatusPatch("patch_status"))
    /\ UNCHANGED <<db, obj, found, plan, has_any, prev, updates, pure, fleet>>

\* reconcile's Err arm: patch_status(&obj, &ctx.client, Some(&e)).await?
PatchError ==
    /\ pc = "patch_error"
    /\ \E ok \in {b \in BOOLEAN : b => is_some(cr)} :
           /\ ops' = Append(ops, Op("patch_status", "Error", ok))
           /\ IF ok
              THEN /\ cr' = Some([unwrap(cr) EXCEPT
                              !.status = Some(set_error(obj.status, to_string(unwrap(err))))])
                   /\ pc' = "publish"
                   /\ result' = result
              ELSE /\ cr' = cr
                   /\ pc' = "done"
                   /\ result' = Some(Failed(StatusPatch("patch_status")))
    /\ UNCHANGED <<db, obj, found, plan, has_any, err, prev, updates, pure, fleet>>

\* reconcile's Err arm: ctx.recorder.publish(&event(&e), ...).await?; Err(e)
Publish ==
    /\ pc = "publish"
    /\ \E ok \in BOOLEAN :
           /\ ops' = Append(ops, [Op("publish", "Error", ok) EXCEPT
                                     !.event = Some(event(unwrap(err)))])
           /\ result' = Some(Failed(IF ok THEN unwrap(err) ELSE KubeError))
    /\ pc' = "done"
    /\ UNCHANGED <<cr, db, obj, found, plan, has_any, err, prev, updates, pure, fleet>>

\* The runtime takes the result; the reconcile's locals are gone and the
\* controller is free for the next reconcile
Return ==
    /\ pc = "done"
    /\ pc' = "idle"
    /\ prev' = Some([ok |-> unwrap(result).ok, spec |-> obj.spec])
    /\ obj' = NoObj
    /\ found' = <<>>
    /\ plan' = <<>>
    /\ has_any' = FALSE
    /\ err' = None
    /\ ops' = <<>>
    /\ result' = None
    /\ UNCHANGED <<cr, db, updates, pure, fleet>>

Next ==
    \/ UserApply
    \/ UserDelete
    \/ ReconcileStart
    \/ Sleep
    \/ Validate
    \/ Exists
    \/ CreateCollection
    \/ ListIndexes
    \/ DropIndex
    \/ CreateIndex
    \/ PatchReady
    \/ PatchError
    \/ Publish
    \/ Return

Spec == Init /\ [][Next]_vars

\* ------------------------------------------------- the translations
\* The number of option fields an Options of the universe sets
MaxSetFields == 2

\* The number of keys of an index of the universe
MaxKeys == 2

Collations ==
    {[DefaultCollation("en") EXCEPT !.backwards = b, !.case_level = c,
                                    !.normalization = n, !.numeric_ordering = o] :
         b \in BOOLEAN, c \in BOOLEAN, n \in BOOLEAN, o \in BOOLEAN}
    \cup {[DefaultCollation("fr") EXCEPT !.alternate = "Shifted", !.case_first = "Upper",
                                        !.max_variable = "Space", !.strength = "Primary"]}

\* The values each field of Options takes in the universe
FieldValues(f) ==
    CASE f = "bits" -> {26, 20}
      [] f = "collation" -> Collations
      [] f = "default_language" -> {"english", "french"}
      [] f = "expire_after_seconds" -> {0, 3600}
      [] f = "hidden" -> BOOLEAN
      [] f = "language_override" -> {"language", "lang"}
      [] f = "max" -> {180, 90}
      [] f = "min" -> {-180, -90}
      [] f = "name" -> {"idx"}
      [] f = "partial_filter_expression" ->
             {{}, {<<"a", JNumber(1)>>}, {<<"a", JString("x")>>, <<"b", JBool(TRUE)>>},
              {<<"a", JNull>>, <<"b", JNumber(I32Max)>>}}
      [] f = "sparse" -> BOOLEAN
      [] f = "sphere_index_version" -> {2, 3, 4}
      [] f = "text_index_version" -> {1, 2, 3, 4}
      [] f = "unique" -> BOOLEAN
      [] f = "weights" -> {{<<"t", 1>>}, {<<"a", 5>>, <<"t", 1>>}, {<<"t", I32Max>>}}
      [] f = "wildcard_projection" -> {{<<"a", "Include">>, <<"b", "Exclude">>}}

OptionFields == DOMAIN NoOptions

\* The Options that set at most n fields
RECURSIVE OptionsUpTo(_)
OptionsUpTo(n) ==
    IF n = 0 THEN {NoOptions}
    ELSE LET less == OptionsUpTo(n - 1)
         IN  less \cup UNION {UNION {{[o EXCEPT ![f] = Some(v)] : v \in FieldValues(f)} :
                                        f \in OptionFields} : o \in less}

OptionsUniverse == OptionsUpTo(MaxSetFields)

\* The keys that have exactly one of direction and indexType
ValidKeys ==
    {Key(f, Some(d), None) : f \in {"a", "t"}, d \in {"Ascending", "Descending"}}
    \cup {Key(f, None, Some(ty)) : f \in {"a", "t"}, ty \in {"Text", "Hashed"}}
    \cup {Typed("a", "TwoDimensional"), Typed("a", "TwoDimensionalSphere")}

KeyLists == UNION {[1..n -> ValidKeys] : n \in 1..MaxKeys}

IndexOptionsUniverse ==
    {None, Some(NoOptions), Some([NoOptions EXCEPT !.name = Some("idx")]),
     Some([NoOptions EXCEPT !.unique = Some(TRUE)]),
     Some([NoOptions EXCEPT !.weights = Some({<<"t", 1>>})]),
     Some([NoOptions EXCEPT !.weights = Some({<<"a", 1>>})]),
     Some([NoOptions EXCEPT !.weights = Some({<<"a", 1>>, <<"t", 2>>})])}

IndexUniverse == {Index(k, o) : k \in KeyLists, o \in IndexOptionsUniverse}

InitTranslate ==
    /\ cr = None
    /\ collections = {}
    /\ indexes = [n \in CollectionNames |-> <<>>]
    /\ RunInit
    /\ updates = 0
    /\ fleet = NoFleet
    /\ \/ \E o \in OptionsUniverse : pure = [op |-> "options", in |-> Some(o), out |-> None]
       \/ \E i \in IndexUniverse : pure = [op |-> "index", in |-> Some(i), out |-> None]

\* model_to_options(options_to_model(O))
OptionsRoundTrip ==
    /\ pure.op = "options"
    /\ pure' = [op |-> "options_round_trip", in |-> pure.in,
                out |-> Some(model_to_options(options_to_model(unwrap(pure.in))))]
    /\ UNCHANGED <<cr, db, run, updates, fleet>>

\* index_model_to_index(index_to_model(I))
IndexRoundTrip ==
    /\ pure.op = "index"
    /\ pure' = [op |-> "index_round_trip", in |-> pure.in,
                out |-> Some(index_model_to_index(index_to_model(unwrap(pure.in))))]
    /\ UNCHANGED <<cr, db, run, updates, fleet>>

\* create_index(I), and then the index as list_indexes translates it
CreateAndList ==
    /\ pure.op = "index"
    /\ pure' = [op |-> "created_and_listed", in |-> pure.in,
                out |-> Some(index_model_to_index(
                                 ServerStored(index_to_model(unwrap(pure.in)))))]
    /\ UNCHANGED <<cr, db, run, updates, fleet>>

NextTranslate ==
    \/ OptionsRoundTrip
    \/ IndexRoundTrip
    \/ CreateAndList

SpecTranslate == InitTranslate /\ [][NextTranslate]_vars

\* --------------------------------------------------- the comparisons
\* The number of option fields in which the second block of a compared pair
\* is varied against the first
MaxVaried == 1

\* The values each field of a compared Options takes
CompareFieldValues(f) ==
    IF f = "collation"
    THEN {DefaultCollation("en"), [DefaultCollation("en") EXCEPT !.strength = "Primary"]}
    ELSE IF f = "partial_filter_expression"
    THEN {{<<"a", JNumber(1)>>}, {<<"a", JString("x")>>, <<"b", JBool(TRUE)>>}}
    ELSE IF f = "sphere_index_version" THEN {2, 3}
    ELSE IF f = "text_index_version" THEN {2, 3}
    ELSE IF f = "weights" THEN {{<<"t", 1>>}, {<<"a", 5>>, <<"t", 1>>}}
    ELSE FieldValues(f)

\* Every non-name field with a documented default is set to it
DefaultOptions ==
    [NoOptions EXCEPT !.bits = Some(26), !.default_language = Some("english"),
                      !.hidden = Some(FALSE), !.language_override = Some("language"),
                      !.max = Some(180), !.min = Some(-180), !.sparse = Some(FALSE),
                      !.unique = Some(FALSE)]

StrictOptions ==
    [NoOptions EXCEPT !.unique = Some(TRUE), !.expire_after_seconds = Some(3600),
                      !.collation = Some(DefaultCollation("en")),
                      !.name = Some("strict")]

CompareBases == {NoOptions, DefaultOptions, StrictOptions}

\* The Options that differ from o in at most n fields
RECURSIVE Vary(_, _)
Vary(o, n) ==
    IF n = 0 THEN {o}
    ELSE LET less == Vary(o, n - 1)
         IN  less \cup UNION {UNION {{[v EXCEPT ![f] = x] :
                                        x \in {None} \cup {Some(y) : y \in CompareFieldValues(f)}} :
                                     f \in OptionFields} : v \in less}

CompareKeys == {Asc("a"), Desc("a"), Asc("b"), Typed("a", "Text")}

CompareKeyLists == UNION {[1..n -> CompareKeys] : n \in 1..MaxKeys}

\* The pairs of indexes compared: the same keys with two options blocks, of
\* which either may be absent, or two key lists with the same options
InitCompare ==
    /\ cr = None
    /\ collections = {}
    /\ indexes = [n \in CollectionNames |-> <<>>]
    /\ RunInit
    /\ updates = 0
    /\ fleet = NoFleet
    /\ \/ \E base \in CompareBases : \E a \in Vary(base, 1) : \E b \in Vary(a, MaxVaried) :
              \E o \in {<<Some(a), Some(b)>>, <<None, Some(b)>>, <<Some(b), None>>,
                        <<None, None>>} :
                  pure = [op |-> "pair",
                          in |-> Some(<<Index(<<Asc("a")>>, o[1]), Index(<<Asc("a")>>, o[2])>>),
                          out |-> None]
       \/ \E k1 \in CompareKeyLists, k2 \in CompareKeyLists :
              \E o \in {None, Some(StrictOptions)} :
                  pure = [op |-> "pair", in |-> Some(<<Index(k1, o), Index(k2, o)>>),
                          out |-> None]

\* a == b and b == a, as slice::contains evaluates them in the differ, with
\* the parts of the comparison
Compare ==
    /\ pure.op = "pair"
    /\ LET a == unwrap(pure.in)[1]
           b == unwrap(pure.in)[2]
       IN  pure' = [op |-> "compared", in |-> pure.in,
                    out |-> Some([eq |-> index_eq(a, b),
                                  eq_back |-> index_eq(b, a),
                                  keys |-> same_keys(a.keys, b.keys),
                                  keys_back |-> same_keys(b.keys, a.keys),
                                  options |-> option_options_eq(a.options, b.options),
                                  options_back |-> option_options_eq(b.options, a.options)])]
    /\ UNCHANGED <<cr, db, run, updates, fleet>>

NextCompare == Compare

SpecCompare == InitCompare /\ [][NextCompare]_vars

\* --------------------------------------------------- the controllers
\* Config::default().concurrency(1): the reconciles one controller runs at
\* a time
Concurrency == 1

\* The runtime starts a reconcile when its controller has a free slot
slot_free_unbounded(in_flight) == TRUE

slot_free(in_flight) == in_flight < Concurrency

\* watch: one Api for the cluster when no namespace or only "*" is listed,
\* else one Api per listed namespace
watch(namespaces) ==
    IF namespaces = <<>> \/ (Len(namespaces) = 1 /\ namespaces[1] = "*")
    THEN {"*"}
    ELSE {namespaces[i] : i \in 1..Len(namespaces)}

\* What watch_namespaces may return
WatchNamespaces == {<<>>, <<"*">>, <<"ns1">>, <<"ns1", "ns2">>}

\* The resources of the cluster: two in ns1, one in ns2 that has the
\* metadata.name of a resource of ns1
FleetIds == {"A", "B", "C"}

FleetNamespace(id) == IF id = "C" THEN "ns2" ELSE "ns1"

FleetMetadataName(id) == IF id = "B" THEN "orders" ELSE "users"

\* spec.name of the resources: only C may set it
FleetSpecNames(id) == IF id = "C" THEN {None, Some("logs"), Some("orders")} ELSE {None}

FleetResource(id, name) ==
    [metadata_name |-> Some(FleetMetadataName(id)),
     spec |-> [name |-> name, indexes |-> None, clustered |-> None],
     status |-> None]

\* The controller that reconciles a resource, if any: the one whose Api
\* covers the resource's namespace
ControllerOf(id) ==
    IF "*" \in fleet.scopes THEN Some("*")
    ELSE IF FleetNamespace(id) \in fleet.scopes THEN Some(FleetNamespace(id))
    ELSE None

\* The reconciles a controller has in flight
InFlight(c) == {id \in FleetIds : ControllerOf(id) = Some(c) /\ fleet.at[id] # "idle"}

InitControllers ==
    /\ cr = None
    /\ collections = {}
    /\ indexes = [n \in CollectionNames |-> <<>>]
    /\ RunInit
    /\ updates = 0
    /\ pure = NoPure
    /\ \E ns \in WatchNamespaces : \E name \in FleetSpecNames("C") :
           fleet = [scopes |-> watch(ns),
                    crs |-> [id \in FleetIds |->
                                FleetResource(id, IF id = "C" THEN name ELSE None)],
                    at |-> [id \in FleetIds |-> "idle"]]

\* The runtime calls reconcile for a resource of a controller that has a
\* free slot; never for a resource whose reconcile is still running
ControllerStart(id) ==
    /\ fleet.at[id] = "idle"
    /\ is_some(ControllerOf(id))
    /\ slot_free(Cardinality(InFlight(unwrap(ControllerOf(id)))))
    /\ fleet' = [fleet EXCEPT !.at[id] =
                    IF is_not_ready(fleet.crs[id]) THEN "sleep" ELSE "reconcile_action"]
    /\ UNCHANGED <<cr, db, run, updates, pure>>

\* sleep(BACK_OFF).await is over
ControllerSleep(id) ==
    /\ fleet.at[id] = "sleep"
    /\ fleet' = [fleet EXCEPT !.at[id] = "reconcile_action"]
    /\ UNCHANGED <<cr, db, run, updates, pure>>

\* reconcile_action up to reconcile_indexes: the collection is there, or one
\* of the calls failed
ControllerAction(id) ==
    /\ fleet.at[id] = "reconcile_action"
    /\ \E ok \in BOOLEAN :
           fleet' = [fleet EXCEPT !.at[id] = IF ok THEN "indexes" ELSE "patch_error"]
    /\ UNCHANGED <<cr, db, run, updates, pure>>

\* reconcile_indexes: from list_indexes to the last drop or create on the
\* collection collection_name gives
ControllerIndexes(id) ==
    /\ fleet.at[id] = "indexes"
    /\ \E ok \in BOOLEAN :
           fleet' = [fleet EXCEPT !.at[id] = IF ok THEN "patch_ready" ELSE "patch_error"]
    /\ UNCHANGED <<cr, db, run, updates, pure>>

\* The status patch, and the return to the runtime
ControllerReturn(id) ==
    /\ fleet.at[id] \in {"patch_ready", "patch_error"}
    /\ \E ok \in BOOLEAN :
           fleet' = [fleet EXCEPT
                        !.at[id] = "idle",
                        !.crs[id].status =
                            IF ~ok THEN @
                            ELSE IF fleet.at[id] = "patch_ready" THEN Some(set_ready(@))
                            ELSE Some(set_error(@, <<"error">>))]
    /\ UNCHANGED <<cr, db, run, updates, pure>>

NextControllers ==
    \/ \E id \in FleetIds : ControllerStart(id)
    \/ \E id \in FleetIds : ControllerSleep(id)
    \/ \E id \in FleetIds : ControllerAction(id)
    \/ \E id \in FleetIds : ControllerIndexes(id)
    \/ \E id \in FleetIds : ControllerReturn(id)

SpecControllers == InitControllers /\ [][NextControllers]_vars

\* =============================================================== claims
Done == pc = "done"

Succeeded == Done /\ unwrap(result).ok

Returned == unwrap(unwrap(result).err)

OpsAt(kinds) == {i \in 1..Len(ops) : ops[i].op \in kinds}

DatabaseOps ==
    {"list_collection_names", "create_collection", "list_indexes", "drop_index",
     "create_index"}

\* The status of the resource on the API server
StatusNow == IF is_some(cr) THEN unwrap(cr).status ELSE None

\* Some key of spec.indexes has both direction and indexType
HasConflictingKey(spec) ==
    /\ is_some(spec.indexes)
    /\ \E i \in 1..Len(unwrap(spec.indexes)) :
           \E k \in 1..Len(unwrap(spec.indexes)[i].keys) :
               LET key == unwrap(spec.indexes)[i].keys[k]
               IN  key.direction # None /\ key.index_type # None

\* The fields of those keys, in the order of the spec
OffendingFields(spec) ==
    LET keys == AllKeys(unwrap(spec.indexes))
        both == {k \in 1..Len(keys) : keys[k].direction # None /\ keys[k].index_type # None}
    IN  [j \in 1..Cardinality(both) |->
            keys[CHOOSE k \in both : Cardinality({m \in both : m < k}) = j - 1].field]

Desired == IF is_some(obj.spec.indexes) THEN unwrap(obj.spec.indexes) ELSE <<>>

Observed == index_models_to_indexes(indexes[collection_name(obj)])

\* C1 (as claimed): a successful reconcile that follows a successful
\* reconcile of the same spec, with nothing else writing to the database,
\* issues no index drop, no index create and no collection creation.
Idempotence ==
    (/\ Succeeded
     /\ is_some(prev)
     /\ unwrap(prev).ok
     /\ unwrap(prev).spec = obj.spec)
    => OpsAt({"drop_index", "create_index", "create_collection"}) = {}

\* C2 (as claimed): after a successful reconcile of a resource that declares
\* its indexes, every observed index other than `_id_` is equivalent to some
\* desired index and every desired index to some observed one.
Convergence ==
    (Succeeded /\ is_some(obj.spec.indexes))
    => /\ \A o \in 1..Len(Observed) :
              \E d \in 1..Len(Desired) : index_eq(Desired[d], Observed[o])
       /\ \A d \in 1..Len(Desired) :
              \E o \in 1..Len(Observed) : index_eq(Desired[d], Observed[o])

\* C3 (as claimed): a reconcile of a spec with a key that has both direction
\* and indexType fails with InvalidKeys naming the offending fields and
\* issues no database operation.
KeyValidity ==
    (Done /\ HasConflictingKey(obj.spec))
    => /\ ~unwrap(result).ok
       /\ Returned = InvalidKeys(OffendingFields(obj.spec))
       /\ OpsAt(DatabaseOps) = {}

\* C3 (amended): a reconcile of a spec with a key that has both direction and
\* indexType issues no database operation at any point; its body fails with
\* InvalidKeys naming the offending fields, and the reconcile returns an
\* error: that InvalidKeys when the Error status patch and the event
\* publication succeed, StatusPatch when the patch fails, the Kubernetes
\* error when the publication fails.
KeyValidityAmended ==
    (pc # "idle" /\ HasConflictingKey(obj.spec))
    => /\ OpsAt(DatabaseOps) = {}
       /\ pc \in {"patch_error", "publish", "done"}
              => err = Some(InvalidKeys(OffendingFields(obj.spec)))
       /\ Done =>
              /\ ~unwrap(result).ok
              /\ Returned =
                     CASE ~ops[Len(ops)].ok /\ ops[Len(ops)].op = "patch_status" ->
                              StatusPatch("patch_status")
                       [] ~ops[Len(ops)].ok /\ ops[Len(ops)].op = "publish" -> KubeError
                       [] OTHER -> InvalidKeys(OffendingFields(obj.spec))

\* C3 (witness): a reconcile of a spec with a conflicting key has returned
\* InvalidKeys.
KeyValidityWitness ==
    /\ Done
    /\ HasConflictingKey(obj.spec)
    /\ Returned.kind = "InvalidKeys"
    /\ collection_name(obj) \notin collections

\* C4: no drop is ever issued or planned for the index named `_id_`, that
\* index is never among the indexes the differ compares, and every
\* collection keeps it.
ClusteredPreservation ==
    /\ \A i \in OpsAt({"drop_index"}) : ops[i].name # "_id_"
    /\ \A i \in 1..Len(plan) : plan[i].op = "drop_index" => plan[i].name # "_id_"
    /\ \A i \in 1..Len(found) : OptionsName(found[i].options) # Some("_id_")
    /\ \A n \in collections : \E i \in 1..Len(indexes[n]) : indexes[n][i] = IdIndexModel

\* C4 (witness): a reconcile of an empty index list has dropped an index
\* and the collection still has `_id_`.
ClusteredPreservationWitness ==
    /\ Succeeded
    /\ obj.spec.indexes = Some(<<>>)
    /\ \E i \in OpsAt({"drop_index"}) : ops[i].ok
    /\ indexes[collection_name(obj)] = <<IdIndexModel>>

\* C5 (as claimed): after a reconcile that returns success the status is
\* Ready, and after one that returns an error the status is Error carrying
\* that error's message.
StatusOutcome ==
    Done => IF unwrap(result).ok
            THEN StatusNow = Some(set_ready(None))
            ELSE StatusNow = Some(set_error(None, to_string(Returned)))

ErrorPatched == \E i \in OpsAt({"patch_status"}) : ops[i].name = "Error" /\ ops[i].ok

\* C5 (amended): after a reconcile that returns success the status is Ready.
\* After one that returns an error, the status is Error carrying the message
\* of the error of the reconcile body if the Error status patch succeeded,
\* which is the returned error unless the event publication failed; if the
\* Error patch failed, StatusPatch is returned and the status is the one
\* the reconcile started with.
StatusOutcomeAmended ==
    Done =>
        IF unwrap(result).ok
        THEN StatusNow = Some(set_ready(None))
        ELSE IF ErrorPatched
             THEN /\ StatusNow = Some(set_error(None, to_string(unwrap(err))))
                  /\ Returned # KubeError => Returned = unwrap(err)
             ELSE /\ Returned = StatusPatch("patch_status")
                  /\ StatusNow = obj.status

\* C5 (witness): a reconcile that met a database error has returned it and
\* the status carries its message, where the status was Ready before.
StatusOutcomeWitness ==
    /\ Done
    /\ ~unwrap(result).ok
    /\ Returned.kind = "MongoDB"
    /\ obj.status = Some(set_ready(None))
    /\ StatusNow = Some(set_error(None, to_string(Returned)))

\* C6: within one reconcile no index create precedes an index drop: every
\* create is issued after the last drop, and once a create is issued no drop
\* is left to make.
DropBeforeCreate ==
    /\ \A i \in OpsAt({"create_index"}) : \A j \in OpsAt({"drop_index"}) : j < i
    /\ \A i \in 1..Len(plan) : \A j \in 1..Len(plan) :
           (plan[i].op = "create_index" /\ plan[j].op = "drop_index") => j < i
    /\ OpsAt({"create_index"}) # {} => \A j \in 1..Len(plan) : plan[j].op # "drop_index"

\* C6 (witness): a reconcile has dropped an index and then created one.
DropBeforeCreateWitness ==
    /\ Succeeded
    /\ \E i \in OpsAt({"drop_index"}) : \E j \in OpsAt({"create_index"}) :
           ops[i].ok /\ ops[j].ok /\ i < j

\* The listing of the collection names came back without the target name
ListedAbsent ==
    \E i \in OpsAt({"list_collection_names"}) :
        ops[i].ok /\ collection_name(obj) \notin ops[i].names

CollectionCreateIssued ==
    /\ \A i \in OpsAt({"create_collection"}) :
           /\ ops[i].name = collection_name(obj)
           /\ ~HasConflictingKey(obj.spec)
           /\ ListedAbsent
    /\ Cardinality(OpsAt({"create_collection"})) <= 1
    /\ (pc \notin {"idle", "reconcile_action", "exists", "create_collection"}
        /\ ~HasConflictingKey(obj.spec) /\ ListedAbsent)
           => OpsAt({"create_collection"}) # {}

\* C7: a reconcile issues create-collection, for the target name, exactly
\* when the keys are valid and the listed collection names lack that name;
\* and no step of any sequence of creations, updates, deletions and
\* reconciles removes a collection.
CollectionLifecycle ==
    /\ []CollectionCreateIssued
    /\ [][collections \subseteq collections']_vars

\* C7 (witness): a reconcile has created the collection `orders` that
\* spec.name names, beside the collection `users` that was there before.
CollectionLifecycleWitness ==
    /\ Succeeded
    /\ \E i \in OpsAt({"create_collection"}) : ops[i].ok /\ ops[i].name = "orders"
    /\ collections = {"users", "orders"}

\* C8 (as claimed): for every Options O, model_to_options(options_to_model(O))
\* is equivalent to O under the equivalence that index equality uses for
\* options.
OptionsRoundTripLaw ==
    pure.op = "options_round_trip"
    => \/ option_options_eq(pure.out, pure.in)
       \/ is_default_option(pure.out, pure.in)

\* C9 (as claimed): for every Index I whose keys each have exactly one of
\* direction and indexType, index_model_to_index(index_to_model(I)) == I.
IndexRoundTripLaw ==
    pure.op = "index_round_trip" => index_eq(unwrap(pure.out), unwrap(pure.in))

AllTextKeys(index) == \A i \in 1..Len(index.keys) : index.keys[i].index_type = Some("Text")

\* C10 (as claimed): a desired index of text keys only and without options
\* equals the index the server reports for it, so the differ plans no drop
\* and no create.
TextIndexEquivalence ==
    (/\ pure.op = "created_and_listed"
     /\ AllTextKeys(unwrap(pure.in))
     /\ unwrap(pure.in).options = None)
    => /\ index_eq(unwrap(pure.in), unwrap(pure.out))
       /\ reconcile_indexes_plan(Some(pure.in), pure.out) = <<>>

\* ------------------------------------------------ the index equality
Compared == pure.op = "compared"

Left == unwrap(pure.in)[1]

Right == unwrap(pure.in)[2]

Outcome == unwrap(pure.out)

\* Every non-name field of o is unset or at its documented default
AtDocumentedDefaults(o) ==
    /\ o.bits \in {None, Some(26)}
    /\ o.collation = None
    /\ o.default_language \in {None, Some("english")}
    /\ o.expire_after_seconds = None
    /\ o.hidden \in {None, Some(FALSE)}
    /\ o.language_override \in {None, Some("language")}
    /\ o.max \in {None, Some(180)}
    /\ o.min \in {None, Some(-180)}
    /\ o.partial_filter_expression = None
    /\ o.sparse \in {None, Some(FALSE)}
    /\ o.sphere_index_version = None
    /\ o.text_index_version = None
    /\ o.unique \in {None, Some(FALSE)}
    /\ o.weights = None
    /\ o.wildcard_projection = None

\* One of the two compared indexes has no options block, the other has one
OneAbsent == is_none(Left.options) # is_none(Right.options)

ThePresent == IF is_some(Left.options) THEN unwrap(Left.options) ELSE unwrap(Right.options)

\* C11: an index without an options block equals, in both argument orders,
\* an index with the same keys whose options block has every non-name field
\* unset or at its documented default, and is unequal to one that has any
\* non-name field off its default.
DefaultFolding ==
    (Compared /\ Left.keys = Right.keys /\ OneAbsent)
    => /\ Outcome.eq = AtDocumentedDefaults(ThePresent)
       /\ Outcome.eq_back = AtDocumentedDefaults(ThePresent)

\* C11 witness: an absent block has been compared with a block that sets
\* every defaulted field to its default, and a name, and found equal both ways.
DefaultFoldingWitness ==
    /\ Compared
    /\ Left.options = None
    /\ Right.options = Some([DefaultOptions EXCEPT !.name = Some("idx")])
    /\ Outcome.eq /\ Outcome.eq_back

KeySet(keys) == {keys[i] : i \in 1..Len(keys)}

\* C12: the key condition of index equality holds exactly when both key
\* lists have the same number of keys and contain the same set of keys,
\* whatever the order of the keys.
KeySetEquality ==
    Compared
    => LET same == /\ Len(Left.keys) = Len(Right.keys)
                   /\ KeySet(Left.keys) = KeySet(Right.keys)
       IN  Outcome.keys = same /\ Outcome.keys_back = same

StrictFields ==
    {"bits", "collation", "expire_after_seconds", "hidden", "max", "min",
     "partial_filter_expression", "sparse", "unique", "wildcard_projection"}

BothPresent == is_some(Left.options) /\ is_some(Right.options)

StrictFieldsEqual ==
    \A f \in StrictFields : unwrap(Left.options)[f] = unwrap(Right.options)[f]

\* C13: two indexes with the same keys that both carry an options block are
\* equal only if every strict option field (bits, collation,
\* expireAfterSeconds, hidden, max, min, partialFilterExpression, sparse,
\* unique, wildcardProjection) is structurally equal on both sides.
StrictOptionFields ==
    (Compared /\ Left.keys = Right.keys /\ BothPresent /\ Outcome.eq)
    => StrictFieldsEqual

\* The two compared blocks are alike in every field outside `fields`
DifferOnlyIn(fields) ==
    \A f \in OptionFields \ fields : unwrap(Left.options)[f] = unwrap(Right.options)[f]

LeftField(f) == unwrap(Left.options)[f]

RightField(f) == unwrap(Right.options)[f]

\* C14: two options blocks that are otherwise alike are equal when they
\* differ only in name; when defaultLanguage is unset on one side and
\* "english" on the other; when languageOverride is unset on one side and
\* "language" on the other; when sphereIndexVersion, textIndexVersion or
\* weights is unset on one side.  When both sides set one of these fields
\* to different values they are unequal.
OptionRelaxations ==
    (Compared /\ Left.keys = Right.keys /\ BothPresent)
    => /\ DifferOnlyIn({"name"}) => (Outcome.options /\ Outcome.eq)
       /\ (/\ DifferOnlyIn({"name", "default_language"})
           /\ {LeftField("default_language"), RightField("default_language")}
                  = {None, Some("english")})
          => (Outcome.options /\ Outcome.eq)
       /\ (/\ DifferOnlyIn({"name", "language_override"})
           /\ {LeftField("language_override"), RightField("language_override")}
                  = {None, Some("language")})
          => (Outcome.options /\ Outcome.eq)
       /\ \A f \in {"sphere_index_version", "text_index_version", "weights"} :
              (DifferOnlyIn({"name", f}) /\ (is_none(LeftField(f)) \/ is_none(RightField(f))))
              => (Outcome.options /\ Outcome.eq)
       /\ \A f \in {"default_language", "language_override", "sphere_index_version",
                    "text_index_version", "weights"} :
              (/\ DifferOnlyIn({"name", f})
               /\ is_some(LeftField(f)) /\ is_some(RightField(f))
               /\ LeftField(f) # RightField(f))
              => (~Outcome.options /\ ~Outcome.eq)

\* C14 witness: two blocks with the same strict fields, of which one leaves
\* defaultLanguage unset and the other sets it to "english", have been
\* found equal.
OptionRelaxationsWitness ==
    /\ Compared /\ BothPresent
    /\ LeftField("unique") = Some(TRUE)
    /\ LeftField("default_language") = None
    /\ RightField("default_language") = Some("english")
    /\ DifferOnlyIn({"default_language"})
    /\ Outcome.options /\ Outcome.eq

\* ------------------------------------------------------ the scheduling
\* C15: within one controller at most one reconcile is in flight at any
\* time.
ConcurrencyCap ==
    \A c \in fleet.scopes : Cardinality(InFlight(c)) <= 1

\* C15 witness: the one controller of the cluster has a reconcile in flight
\* while another resource of its scope waits for its turn.
ConcurrencyCapWitness ==
    /\ fleet.scopes = {"*"}
    /\ fleet.at["A"] = "indexes"
    /\ fleet.at["B"] = "idle" /\ fleet.at["C"] = "idle"
    /\ is_some(fleet.crs["B"].status)

\* The name a resource gives its collection: spec.name, else metadata.name
TargetName(id) ==
    IF fleet.crs[id].spec.name # None
    THEN unwrap(fleet.crs[id].spec.name)
    ELSE FleetMetadataName(id)

DistinctTargets ==
    \A i \in FleetIds, j \in FleetIds : i # j => TargetName(i) # TargetName(j)

\* Two reconciles are at the indexes of the same collection at once
IndexWorkOverlaps ==
    \E i \in FleetIds, j \in FleetIds :
        /\ i # j
        /\ fleet.at[i] = "indexes" /\ fleet.at[j] = "indexes"
        /\ collection_name(fleet.crs[i]) = collection_name(fleet.crs[j])

BackOffDoesNotBlock ==
    \A i \in DOMAIN fleet.at, j \in DOMAIN fleet.at :
        (/\ i # j
         /\ fleet.at[i] = "sleep"
         /\ fleet.at[j] = "idle"
         /\ is_some(ControllerOf(j)))
        => ENABLED ControllerStart(j)

\* ------------------------------------------------------- the requeue
\* C18: every reconcile that returns success asks for the next reconcile
\* after 60 s, and every reconcile that returns an error, of whatever kind,
\* is requeued after 5 s.
RequeuePolicy ==
    Done => unwrap(result).after = IF unwrap(result).ok THEN 60 ELSE 5

\* C18 witness: a reconcile has returned the error of a failed database
\* call, after the Error patch and the event.
RequeuePolicyWitness ==
    /\ Done
    /\ ~unwrap(result).ok
    /\ Returned.kind = "MongoDB"
    /\ unwrap(result).after = 5

\* -------------------------------------------------------- the creation
\* C19: a creation request enables the clustered index exactly when
\* spec.clustered is true; with spec.clustered false or absent the
\* collection is created without a clustered index.
ClusteredCreation ==
    \A i \in OpsAt({"create_collection"}) :
        ops[i].clustered_index = (obj.spec.clustered = Some(TRUE))

\* --------------------------------------------------------- the differ
\* The index step of the running reconcile has listed the indexes and made
\* every drop and create it had to make
IndexStepCompleted ==
    /\ pc \notin {"idle", "indexes"}
    /\ \E i \in OpsAt({"list_indexes"}) : ops[i].ok
    /\ \A i \in OpsAt({"drop_index", "create_index"}) : ops[i].ok

\* The names of the drops issued, and the indexes of the creates issued, in
\* the order of the calls
DropsIssued ==
    LET s == SelectSeq(ops, LAMBDA o : o.op = "drop_index")
    IN  [i \in 1..Len(s) |-> s[i].name]

CreatesIssued ==
    LET s == SelectSeq(ops, LAMBDA o : o.op = "create_index")
    IN  [i \in 1..Len(s) |-> unwrap(s[i].index)]

\* The names of the observed indexes, other than `_id_`, that carry a name
\* and that no index of `desired` equals
NamedUnspecified(desired) ==
    LET s == SelectSeq(found, LAMBDA o :
                 /\ is_some(OptionsName(o.options))
                 /\ ~\E i \in 1..Len(desired) : index_eq(desired[i], o))
    IN  [i \in 1..Len(s) |-> unwrap(OptionsName(s[i].options))]

\* The indexes of `desired` that no observed index equals
Unobserved(desired) ==
    SelectSeq(desired, LAMBDA d : ~\E i \in 1..Len(found) : index_eq(found[i], d))

BodyFailed == Done /\ is_some(err)

PatchOps == OpsAt({"patch_status"})

ErrorPatchOps == {i \in PatchOps : ops[i].name = "Error"}

PublishOps == OpsAt({"publish"})

\* The event of the publish call i is a Warning with reason Error whose note
\* is the message of the body's error
WarningOfBodyError(i) ==
    /\ unwrap(ops[i].event).type_ = "Warning"
    /\ unwrap(ops[i].event).reason = "Error"
    /\ unwrap(ops[i].event).note = Some(to_string(unwrap(err)))

\* C21: for every error the reconcile body returns, the reconcile patches
\* the status to Error with the error's message, then publishes one Warning
\* event with reason Error and the message for note, then returns that same
\* error; the event is published only after the status patch succeeded.
FailureHandlingSequence ==
    /\ \A j \in PublishOps : \E i \in ErrorPatchOps : i < j /\ ops[i].ok
    /\ BodyFailed
       => /\ \E i \in ErrorPatchOps : ops[i].ok
          /\ StatusNow = Some(set_error(obj.status, to_string(unwrap(err))))
          /\ Cardinality(PublishOps) = 1
          /\ \A j \in PublishOps : WarningOfBodyError(j)
          /\ Returned = unwrap(err)

\* C21 (amended): for every error the reconcile body returns, the reconcile
\* attempts one Error patch with the error's message.  If the patch fails it
\* publishes no event and returns StatusPatch.  If the patch succeeds it
\* publishes, right after it, one Warning event with reason Error and the
\* message for note, and returns the body's error, or the Kubernetes error
\* when the publication fails.
FailureHandlingSequenceAmended ==
    /\ \A j \in PublishOps : j - 1 \in ErrorPatchOps /\ ops[j - 1].ok
    /\ BodyFailed
       => /\ Cardinality(ErrorPatchOps) = 1
          /\ IF \E i \in ErrorPatchOps : ops[i].ok
             THEN /\ StatusNow = Some(set_error(obj.status, to_string(unwrap(err))))
                  /\ Cardinality(PublishOps) = 1
                  /\ \A j \in PublishOps :
                         /\ j = Len(ops)
                         /\ WarningOfBodyError(j)
                         /\ Returned = IF ops[j].ok THEN unwrap(err) ELSE KubeError
             ELSE /\ PublishOps = {}
                  /\ Returned = StatusPatch("patch_status")

\* C21 witness: a create_index has failed, and the reconcile has patched the
\* status, published the event and returned the database error.
FailureHandlingSequenceWitness ==
    /\ BodyFailed
    /\ unwrap(err) = MongoDB("create_index")
    /\ \E j \in PublishOps : ops[j].ok /\ ops[j - 1].op = "patch_status"
    /\ Returned = unwrap(err)

\* C22: when a status patch fails inside a reconcile, the Ready patch or the
\* Error patch, the StatusPatch error is propagated and no further status
\* patch is attempted in that reconcile.
StatusPatchErrors ==
    \A i \in PatchOps :
        ~ops[i].ok
        => /\ \A j \in PatchOps : j <= i
           /\ Done => Returned.kind = "StatusPatch"

\* C22 (amended): a failed Error patch ends the reconcile with StatusPatch
\* and no further call.  A failed Ready patch makes StatusPatch the error
\* of the reconcile body: one Error patch is attempted after it, and the
\* reconcile returns StatusPatch, or the Kubernetes error when the event
\* publication fails.
StatusPatchErrorsAmended ==
    \A i \in PatchOps :
        ~ops[i].ok
        => IF ops[i].name = "Error"
           THEN /\ i = Len(ops)
                /\ pc = "done"
                /\ Returned.kind = "StatusPatch"
           ELSE /\ unwrap(err).kind = "StatusPatch"
                /\ \A j \in PatchOps : j > i => (j = i + 1 /\ ops[j].name = "Error")
                /\ pc \in {"patch_error", "publish", "done"}
                /\ pc # "patch_error" => i + 1 \in PatchOps
                /\ Done => Returned.kind \in {"StatusPatch", "Kube"}
                /\ (Done /\ Returned.kind = "Kube")
                   => \E j \in PublishOps : ~ops[j].ok

\* C22 witness: the Ready patch has failed, the Error patch after it has
\* succeeded and the reconcile has returned StatusPatch.
StatusPatchErrorsWitness ==
    /\ Done
    /\ \E i \in PatchOps :
           /\ ops[i].name = "Ready" /\ ~ops[i].ok
           /\ i + 1 \in PatchOps /\ ops[i + 1].ok
    /\ Returned.kind = "StatusPatch"

\* ------------------------------------------------- the status writes
ReadyPatchOps == {i \in PatchOps : ops[i].name = "Ready"}

\* The running reconcile has dropped or created an index
IndexesChanged == OpsAt({"drop_index", "create_index"}) # {}

\* The resource had a status when the reconcile started, and it was Ready
PriorReady == obj.status # None /\ unwrap(obj.status).ready

\* C23: a successful reconcile patches the status to Ready exactly when it
\* dropped or created an index, or the resource had no status, or its status
\* was not Ready.  When the status was Ready and no index was dropped or
\* created, the reconcile issues no status patch and the status stays as it
\* was, also when the reconcile created the collection.
StatusWriteCondition ==
    Succeeded
    => /\ (ReadyPatchOps # {}) <=> (IndexesChanged \/ obj.status = None \/ ~PriorReady)
       /\ Cardinality(ReadyPatchOps) <= 1
       /\ ErrorPatchOps = {}
       /\ (PriorReady /\ ~IndexesChanged) => (PatchOps = {} /\ StatusNow = obj.status)

\* C23 witness: a reconcile of a resource whose status was Ready has created
\* the collection, changed no index and returned success.
StatusWriteConditionWitness ==
    /\ Succeeded
    /\ PriorReady
    /\ \E i \in OpsAt({"create_collection"}) : ops[i].ok
    /\ ~IndexesChanged
    /\ PatchOps = {}
    /\ StatusNow = obj.status

\* ------------------------------------------------- the re-entry throttle
SleepOps == OpsAt({"sleep"})

\* A reconcile is running and is past the top of reconcile
PastEntry == pc \notin {"idle", "sleep"}

\* C24: a reconcile sleeps BACK_OFF (5 s) before anything else exactly when
\* the resource it is called with has a status that is not Ready; a resource
\* with no status or with a Ready status is reconciled without the sleep.  A
\* resource that enters with an Error status and whose reconcile succeeds
\* ends with the status Ready.
ReentryThrottle ==
    /\ pc = "sleep" => (ops = <<>> /\ obj.status # None /\ ~PriorReady)
    /\ \A i \in SleepOps : i = 1 /\ ops[i].secs = 5
    /\ PastEntry => ((SleepOps # {}) <=> (obj.status # None /\ ~PriorReady))
    /\ (Succeeded /\ obj.status # None /\ ~PriorReady)
       => (StatusNow # None /\ unwrap(StatusNow).ready)

\* C24 witness: a reconcile of a resource with an Error status has slept,
\* then listed the collections, and has returned success with the status
\* Ready.
ReentryThrottleWitness ==
    /\ Succeeded
    /\ obj.status # None /\ ~PriorReady
    /\ unwrap(obj.status).message # <<>>
    /\ SleepOps = {1}
    /\ ops[2].op = "list_collection_names"
    /\ StatusNow # None /\ unwrap(StatusNow).ready

\* ------------------------------------------------- the restart
\* The running reconcile follows a failed reconcile of the same spec
RestartsFailed == is_some(prev) /\ ~unwrap(prev).ok /\ unwrap(prev).spec = obj.spec

\* No call of the running reconcile has failed
NoFailureMet == \A i \in 1..Len(ops) : ops[i].ok

\* C25: a reconcile that follows a failed reconcile of the same unchanged
\* resource and meets no failure itself returns success, and leaves the
\* status Ready and every observed index other than `_id_` equivalent to a
\* desired index and every desired index to an observed one, whatever the
\* failed reconcile had left behind.
Restartability ==
    (/\ RestartsFailed
     /\ Done
     /\ NoFailureMet
     /\ ~HasConflictingKey(obj.spec)
     /\ is_some(obj.spec.indexes))
    => /\ Succeeded
       /\ StatusNow # None /\ unwrap(StatusNow).ready
       /\ \A o \in 1..Len(Observed) :
              \E d \in 1..Len(Desired) : index_eq(Desired[d], Observed[o])
       /\ \A d \in 1..Len(Desired) :
              \E o \in 1..Len(Observed) : index_eq(Desired[d], Observed[o])

\* ------------------------------------------------- the text-key recovery
\* An index has been translated from what the database lists
Translated == pure.op \in {"index_round_trip", "created_and_listed"}

\* The listed IndexModel that was translated
RawObserved ==
    IF pure.op = "created_and_listed"
    THEN ServerStored(index_to_model(unwrap(pure.in)))
    ELSE index_to_model(unwrap(pure.in))

RawHasText == \E i \in 1..Len(RawObserved.keys) : RawObserved.keys[i].v = BString("text")

RawHasWeights ==
    is_some(RawObserved.options) /\ is_some(unwrap(RawObserved.options).weights)

RawWeightFields == DocKeys(unwrap(unwrap(RawObserved.options).weights))

TextKeySet(keys) == {keys[i] : i \in {j \in 1..Len(keys) : keys[j].index_type = Some("Text")}}

\* The translated key list is the weights-driven one when a listed key is
\* text and the listed options carry weights, and the listed keys otherwise
RecoveryRule ==
    Translated
    => LET out == unwrap(pure.out).keys
       IN  IF RawHasText /\ RawHasWeights
           THEN /\ Len(out) = Cardinality(RawWeightFields)
                /\ {out[i] : i \in 1..Len(out)} =
                       {Key(f, None, Some("Text")) : f \in RawWeightFields}
           ELSE out = Flatten([i \in 1..Len(RawObserved.keys) |->
                                  bson_entry_to_key(RawObserved.keys[i])])

\* The text keys recovered for an index created from a spec with text keys
\* are the text keys of the spec
RecoveredAreSpecified ==
    (pure.op = "created_and_listed" /\ TextKeySet(unwrap(pure.in).keys) # {})
    => TextKeySet(unwrap(pure.out).keys) = TextKeySet(unwrap(pure.in).keys)

\* C26: translating a listed index, if any of its raw keys is text and its
\* options carry weights the key list becomes exactly one text key without
\* direction per field of weights, and otherwise the raw keys are kept; for
\* an index created from a spec with text keys, the recovered text keys are
\* the text keys of the spec.
TextKeyRecovery == RecoveryRule /\ RecoveredAreSpecified

\* ------------------------------------------------- the symmetry
\* C27: for all indexes A and B, also with key lists that repeat a key,
\* A == B holds exactly when B == A, so the drop test and the create test of
\* the differ agree on whether a desired and an observed index match.
IndexEqualitySymmetric == Compared => (Outcome.eq <=> Outcome.eq_back)

\* ------------------------------------------------- absent and empty lists
\* The names of the observed indexes other than `_id_`
FoundNames ==
    {unwrap(OptionsName(found[i].options)) :
         i \in {j \in 1..Len(found) : is_some(OptionsName(found[j].options))}}

\* C28: with spec.indexes absent a reconcile issues no index drop and no
\* index create, whatever indexes the collection has; with spec.indexes
\* present and empty, the reconcile drops every named observed index other
\* than `_id_`, each once, and creates none.
AbsentVersusEmpty ==
    /\ obj.spec.indexes = None => OpsAt({"drop_index", "create_index"}) = {}
    /\ (IndexStepCompleted /\ obj.spec.indexes = Some(<<>>))
       => /\ {DropsIssued[i] : i \in 1..Len(DropsIssued)} = FoundNames
          /\ Len(DropsIssued) = Cardinality(FoundNames)
          /\ CLUSTERED_NAME \notin FoundNames
          /\ CreatesIssued = <<>>
          /\ indexes[collection_name(obj)] = <<IdIndexModel>>

\* C28 witness: a reconcile with an absent spec.indexes has succeeded and
\* left the two indexes the collection had beside `_id_`, and the next
\* reconcile, with an empty spec.indexes, has dropped both.
AbsentVersusEmptyWitness ==
    /\ IndexStepCompleted
    /\ obj.spec.indexes = Some(<<>>)
    /\ Len(DropsIssued) = 2
    /\ is_some(prev)
    /\ unwrap(prev).ok
    /\ unwrap(prev).spec.indexes = None
    /\ unwrap(prev).spec.name = obj.spec.name

\* ------------------------------------------------- existing collections
\* The running reconcile has listed the collection names and the target
\* collection is among them
ListedPresent ==
    \E i \in OpsAt({"list_collection_names"}) :
        ops[i].ok /\ collection_name(obj) \in ops[i].names

\* The names the running reconcile has listed
ListedNames == UNION {ops[i].names : i \in OpsAt({"list_collection_names"})}

\* C29: when the target collection exists already, a reconcile issues no
\* collection-level call other than the listing of the collection names, and
\* the collections of the database stay as listed: a collection option
\* (clustered) changed in the spec after the creation reaches no call.
ExistingNeverAltered ==
    ListedPresent
    => /\ OpsAt({"create_collection"}) = {}
       /\ Cardinality(OpsAt({"list_collection_names"})) = 1
       /\ \A i \in 1..Len(ops) : ~ops[i].clustered_index
       /\ collections = ListedNames

\* C29 witness: a reconcile has succeeded on a resource without
\* spec.clustered; the next reconcile, of the same resource with
\* spec.clustered set, has found the collection and returned success.
ExistingNeverAlteredWitness ==
    /\ Succeeded
    /\ ListedPresent
    /\ obj.spec.clustered = Some(TRUE)
    /\ is_some(prev)
    /\ unwrap(prev).ok
    /\ unwrap(prev).spec.clustered = None
    /\ collection_name([obj EXCEPT !.spec = unwrap(prev).spec]) = collection_name(obj)

====
